---- MODULE Spec2Model ----
(***************************************************************************)
(* A model of examples/repl.cpp: the read-eval-print loop of               *)
(* ReplGlobal::loop, the quit builtin, the result formatter and the caret  *)
(* line of the error printer.  The script engine (cx: pending exception,   *)
(* job queue) and the line source (readline) are the environment; what     *)
(* they hand back to the program is drawn from small sets.                 *)
(***************************************************************************)
EXTENDS Integers, Sequences, FiniteSets, TLC

\* ------------------------------------------------------------------ bounds
MaxLines == 2        \* physical lines available on the line source
MaxJobs == 2         \* continuations that can sit in the job queue
MaxLinebuf == 5      \* characters of a diagnostic's source line

\* ------------------------------------------------------- the line source
\* A physical line as readline returns it (no trailing newline): a sequence
\* of characters.  "(" opens a construct, ")" closes one, "x" is a token.
Lines == { <<>>, <<"(">>, <<")">>, <<"x">> }

RECURSIVE SeqsUpTo(_, _)
SeqsUpTo(S, n) ==
  IF n = 0 THEN { <<>> }
  ELSE LET shorter == SeqsUpTo(S, n - 1)
       IN  shorter \cup { Append(s, e) : s \in { t \in shorter : Len(t) = n - 1 }, e \in S }

\* ------------------------------------------------------------ the engine
\* JS_Utf8BufferIsCompilableUnit: true when the buffer compiles or fails
\* before the source runs out, false when the parser hit the end of the
\* source inside an open construct.
RECURSIVE Scan(_, _)
Scan(buf, depth) ==
  IF buf = <<>> THEN depth = 0
  ELSE IF Head(buf) = "(" THEN Scan(Tail(buf), depth + 1)
  ELSE IF Head(buf) = ")" THEN (depth = 0 \/ Scan(Tail(buf), depth - 1))
  ELSE Scan(Tail(buf), depth)

JS_Utf8BufferIsCompilableUnit(buf) == Scan(buf, 0)

\* Values the engine hands to the formatter.  kind: what the value is;
\* text: what JS::ToString yields; toStr / toSrc: how JS::ToString and
\* JS_ValueToSource end (user code may throw, or call quit()); klass:
\* JS_GetClass is non-null; newStr: JS_NewStringCopyZ succeeds; enc:
\* JS_EncodeStringToUTF8 succeeds.
Texts == { "hello", "" }

\* A string with a NUL character in it: a, NUL, b
NulText == "a\\0b"

NoValue ==
  [ kind |-> "undefined", text |-> "undefined", toStr |-> "ok", toSrc |-> "ok",
    klass |-> TRUE, newStr |-> TRUE, enc |-> TRUE ]

\* Strings are never converted; the conversion of a number runs no user
\* code and needs no class name.
Values ==
  [ kind : { "string" }, text : Texts \cup { NulText }, toStr : { "ok" },
    toSrc : { "ok" },
    klass : { TRUE }, newStr : { TRUE }, enc : BOOLEAN ]
  \cup
  [ kind : { "number" }, text : Texts, toStr : { "ok", "throw" },
    toSrc : { "ok", "throw" }, klass : { TRUE }, newStr : { TRUE },
    enc : BOOLEAN ]
  \cup
  [ kind : { "object" }, text : Texts, toStr : { "ok", "throw", "quit" },
    toSrc : { "ok", "throw", "quit" }, klass : BOOLEAN, newStr : BOOLEAN,
    enc : BOOLEAN ]
  \cup { NoValue }

NoException == [ set |-> FALSE, report |-> FALSE, value |-> NoValue ]

\* A continuation in the job queue either runs to completion or calls quit().
JobKinds == { "run", "quit" }

\* The exit status of a process that has not exited
Running == -1

VARIABLES
  pc,            \* where ReplGlobal::loop / RunREPL is
  eof,           \* loop: bool eof
  lineno,        \* loop: unsigned lineno
  startline,     \* loop: unsigned startline
  buffer,        \* loop: std::string buffer
  m_shouldQuit,  \* ReplGlobal::m_shouldQuit
  input,         \* line source: the lines it will deliver
  pos,           \* line source: lines delivered so far
  prompt,        \* line source: the prompt last displayed
  history,       \* line source: add_history entries
  pending,       \* cx: the pending exception
  jobs,          \* cx: the internal job queue
  interrupted,   \* cx: draining of the job queue has been stopped
  evalBuf,       \* cx: the source last handed to JS::Evaluate
  evalLine,      \* cx: the line number last handed to JS::Evaluate
  cout,          \* std::cout: what the step just taken wrote to it
  cerr,          \* std::cerr: what the step just taken wrote to it
  exitCode,      \* the process: Running, or the status it exited with
  lastCall,      \* the collaborator call made last
  exception,     \* ReportAndClearException: JS::RootedValue exception
  handled,       \* how the loop disposed of this iteration's evaluation
  quits,         \* where the quit builtin was entered from, in order
  report,        \* PrintErrorLine: the JSErrorReport (linebuf, tokenOffset)
  prefix,        \* PrintErrorLine: the prefix argument
  i,             \* PrintErrorLine: loop index
  ndots,         \* PrintErrorLine: size_t ndots
  diag,          \* PrintSingleError: what it reads of *report
  kind,          \* PrintSingleError: PrintErrorKind kind
  fmtValue,      \* FormatResult: the value argument
  fmtResult      \* FormatResult: the string returned

loopVars ==
  << pc, eof, lineno, startline, buffer, m_shouldQuit, input, pos, prompt,
     history, pending, jobs, interrupted, evalBuf, evalLine, cout,
     cerr, exitCode, lastCall, exception, handled, quits >>

\* what only some steps of the loop touch
loopAux == << exception, handled, quits >>

printVars == << report, prefix, i, ndots, diag, kind >>

formatVars == << fmtValue, fmtResult >>

vars == << loopVars, printVars, formatVars >>

\* ------------------------------------------------------------------ Init
\* A report without a source line, as PrintErrorLine sees it
NoReport == [ hasLinebuf |-> FALSE, linebuf |-> <<>>, tokenOffset |-> 0 ]

\* A report without file name, position or message, as PrintSingleError
\* sees it; filename is empty for a null pointer
NoDiag == [ filename |-> <<>>, lineno |-> 0, column |-> 0, message |-> <<>> ]

PrintIdle ==
  /\ report = NoReport
  /\ prefix = ""
  /\ i = 0
  /\ ndots = 0
  /\ diag = NoDiag
  /\ kind = "Error"

FormatIdle ==
  /\ fmtValue = NoValue
  /\ fmtResult = ""

\* The state RunREPL enters ReplGlobal::loop in
Init ==
  /\ PrintIdle
  /\ FormatIdle
  /\ pc = "top"
  /\ eof = FALSE
  /\ lineno = 1
  /\ startline = 1
  /\ buffer = <<>>
  /\ m_shouldQuit = FALSE
  /\ input \in SeqsUpTo(Lines, MaxLines)
  /\ pos = 0
  /\ prompt = "none"
  /\ history = <<>>
  /\ pending = NoException
  /\ jobs = <<>>
  /\ interrupted = FALSE
  /\ evalBuf = <<>>
  /\ evalLine = 0
  /\ cout = <<>>
  /\ cerr = <<>>
  /\ exitCode = Running
  /\ lastCall = "none"
  /\ exception = NoException
  /\ handled = "none"
  /\ quits = <<>>

\* ------------------------------------------------------- ReplGlobal::quit
\* env is the pair the builtin writes: the global's private flag and the
\* job queue's interrupt flag (js::StopDrainingJobQueue).  It returns false
\* and sets no exception.
SetShouldQuitToggles(env) == [ env EXCEPT !.m_shouldQuit = ~@ ]

\* priv(global)->m_shouldQuit = true;
SetShouldQuit(env) == [ env EXCEPT !.m_shouldQuit = TRUE ]

quitKeepsDraining(env) ==
  [ env EXCEPT !.m_shouldQuit = TRUE ]

quit(env) ==
  [ SetShouldQuit(env) EXCEPT !.interrupted = TRUE ]

Env == [ m_shouldQuit |-> m_shouldQuit, interrupted |-> interrupted ]

\* env after the builtin was entered n times
RECURSIVE QuitTimes(_, _)
QuitTimes(env, n) == IF n = 0 THEN env ELSE QuitTimes(quit(env), n - 1)

\* n entries of the quit builtin made from context
QuitsFrom(context, n) == [ k \in 1 .. n |-> context ]

\* ------------------------------------------------------- the formatter
JS_ClearPendingException(exc) == FALSE

\* JS_ValueToSource of a value whose text is t
SourceText(t) == "(" \o t \o ")"

ClassName == "Object"

\* What std::string takes from the char* of an encoded string: the bytes
\* before the first NUL
c_str(text) == IF text = NulText THEN "a" ELSE text

FormatStringLeavesFault(string, exc) ==
  LET chars == string.enc
      exc1 == exc \/ ~chars
  IN  IF ~chars
      THEN [ str |-> "[invalid string]", exc |-> exc1, quits |-> 0 ]
      ELSE [ str |-> "\"" \o c_str(string.text) \o "\"", exc |-> exc1,
             quits |-> 0 ]

\* FormatString(cx, string): exc is whether an exception is pending on cx;
\* the result carries the string returned and the pending state left.
FormatString(string, exc) ==
  LET chars == string.enc                 \* JS_EncodeStringToUTF8 succeeded
      exc1 == exc \/ ~chars               \* a failed call leaves its fault pending
  IN  IF ~chars
      THEN [ str |-> "[invalid string]", exc |-> JS_ClearPendingException(exc1),
             quits |-> 0 ]
      ELSE [ str |-> "\"" \o c_str(string.text) \o "\"", exc |-> exc1,
             quits |-> 0 ]

\* FormatResult(cx, value).  quits: how often a conversion ran user code
\* that called the quit builtin (a failure with no exception set).
FormatResult(value, exc) ==
  IF value.kind = "string" THEN FormatString(value, exc)
  ELSE
    LET \* str = JS::ToString(cx, value)
        ok1 == value.toStr = "ok"
        exc1 == exc \/ value.toStr = "throw"
        q1 == IF value.toStr = "quit" THEN 1 ELSE 0
        \* if (!str) { clear; str = JS_ValueToSource(cx, value); }
        ok2 == ok1 \/ value.toSrc = "ok"
        text2 == IF ok1 THEN value.text ELSE SourceText(value.text)
        exc2 == IF ok1 THEN exc1
                ELSE JS_ClearPendingException(exc1) \/ value.toSrc = "throw"
        q == IF ~ok1 /\ value.toSrc = "quit" THEN q1 + 1 ELSE q1
        \* if (!str) { clear; class name, or a placeholder }
        exc3 == IF ok2 THEN exc2 ELSE JS_ClearPendingException(exc2)
        ok3 == ok2 \/ value.newStr
        text3 == IF ok2 THEN text2 ELSE ClassName
        exc4 == IF ok2 THEN exc3 ELSE exc3 \/ ~value.newStr
        \* JS_EncodeStringToUTF8(cx, str)
        exc5 == exc4 \/ ~value.enc
    IN  IF ~ok2 /\ value.kind = "object" /\ ~value.klass
        THEN [ str |-> "[unknown object]", exc |-> exc3, quits |-> q ]
        ELSE IF ~ok2 /\ value.kind # "object"
        THEN [ str |-> "[unknown non-object]", exc |-> exc3, quits |-> q ]
        ELSE IF ~ok3
        THEN [ str |-> "[invalid class]", exc |-> JS_ClearPendingException(exc4),
               quits |-> q ]
        ELSE IF ~value.enc
        THEN [ str |-> "[invalid string]", exc |-> JS_ClearPendingException(exc5),
               quits |-> q ]
        ELSE [ str |-> c_str(text3), exc |-> exc4, quits |-> q ]

\* The pending exception left on cx by a formatter call
Leftover(exc) ==
  [ set |-> exc, report |-> FALSE, value |-> NoValue ]

\* ------------------------------------------------------ ReplGlobal::loop
TopKeepsStartline ==
  /\ UNCHANGED << printVars, formatVars, exception, quits >>
  /\ pc = "top"
  /\ handled' = "none"
  /\ startline' = startline
  /\ buffer' = <<>>
  /\ pc' = "readline"
  /\ cout' = <<>>
  /\ cerr' = <<>>
  /\ UNCHANGED << eof, lineno, m_shouldQuit, input, pos, prompt, history,
                  pending, jobs, interrupted, evalBuf, evalLine, exitCode,
                  lastCall >>

\* unsigned startline = lineno; std::string buffer;
Top ==
  /\ UNCHANGED << printVars, formatVars, exception, quits >>
  /\ pc = "top"
  /\ handled' = "none"
  /\ startline' = lineno
  /\ buffer' = <<>>
  /\ pc' = "readline"
  /\ cout' = <<>>
  /\ cerr' = <<>>
  /\ UNCHANGED << eof, lineno, m_shouldQuit, input, pos, prompt, history,
                  pending, jobs, interrupted, evalBuf, evalLine, exitCode,
                  lastCall >>

PromptSwapped(sl, ln) == IF sl # ln THEN "js> " ELSE "... "

\* const char* prompt = startline == lineno ? "js> " : "... ";
Prompt(sl, ln) == IF sl = ln THEN "js> " ELSE "... "

AccumulateReversed(buf, line) == line \o buf

\* buffer += line;
Accumulate(buf, line) == buf \o line

\* the body of the inner do-while: prompt, readline, add_history, append
ReadLine ==
  /\ UNCHANGED << printVars, formatVars, loopAux >>
  /\ pc = "readline"
  /\ prompt' = Prompt(startline, lineno)
  /\ lastCall' = "readline"
  /\ IF pos >= Len(input)
     THEN /\ eof' = TRUE
          /\ pc' = "eval"
          /\ UNCHANGED << pos, history, buffer, lineno >>
     ELSE LET line == input[pos + 1]
          IN  /\ pos' = pos + 1
              /\ history' = (IF line # <<>> THEN Append(history, line) ELSE history)
              /\ buffer' = Accumulate(buffer, line)
              /\ lineno' = lineno + 1
              /\ pc' = "probe"
              /\ eof' = eof
  /\ cout' = <<>>
  /\ cerr' = <<>>
  /\ UNCHANGED << startline, m_shouldQuit, input, pending, jobs, interrupted,
                  evalBuf, evalLine, exitCode >>

ProbeInverted ==
  /\ UNCHANGED << printVars, formatVars, loopAux >>
  /\ pc = "probe"
  /\ lastCall' = "probe"
  /\ pc' = (IF JS_Utf8BufferIsCompilableUnit(buffer) THEN "readline" ELSE "eval")
  /\ cout' = <<>>
  /\ cerr' = <<>>
  /\ UNCHANGED << eof, lineno, startline, buffer, m_shouldQuit, input, pos,
                  prompt, history, pending, jobs, interrupted, evalBuf,
                  evalLine, exitCode >>

\* while (!JS_Utf8BufferIsCompilableUnit(cx, global, buffer...))
Probe ==
  /\ UNCHANGED << printVars, formatVars, loopAux >>
  /\ pc = "probe"
  /\ lastCall' = "probe"
  /\ pc' = (IF JS_Utf8BufferIsCompilableUnit(buffer) THEN "eval" ELSE "readline")
  /\ cout' = <<>>
  /\ cerr' = <<>>
  /\ UNCHANGED << eof, lineno, startline, buffer, m_shouldQuit, input, pos,
                  prompt, history, pending, jobs, interrupted, evalBuf,
                  evalLine, exitCode >>

\* What JS::Evaluate can do with a buffer: succeed with a value, fail with
\* an Error object pending, fail with another thrown value pending, fail
\* with nothing pending, or fail because the script called quit().
EvalKinds == { "ok", "error", "throw", "uncatchable", "quit" }

ErrorObject ==
  [ kind |-> "object", text |-> "hello", toStr |-> "ok", toSrc |-> "ok",
    klass |-> TRUE, newStr |-> TRUE, enc |-> TRUE ]

\* EvalAndPrint, lines 291-295: what a successful evaluation's result puts
\* on std::cout, and what formatting it leaves behind
Display(value) ==
  IF value.kind = "undefined"
  THEN [ out |-> <<>>, exc |-> FALSE, quits |-> 0 ]
  ELSE LET r == FormatResult(value, FALSE)
       IN  [ out |-> IF r.str # "" THEN << r.str, "\n" >> ELSE <<>>,
             exc |-> r.exc, quits |-> r.quits ]

\* EvalAndPrint(cx, buffer, startline), with the jobs the script enqueued
EvalAndPrint ==
  /\ UNCHANGED << printVars, formatVars, exception >>
  /\ pc = "eval"
  /\ lastCall' = "evaluate"
  /\ evalBuf' = buffer
  /\ evalLine' = startline
  /\ \E js \in SeqsUpTo(JobKinds, MaxJobs) :
       /\ Len(jobs) + Len(js) <= MaxJobs
       /\ jobs' = jobs \o js
  /\ \E outcome \in EvalKinds, value \in Values :
       CASE outcome = "ok" ->
              LET d == Display(value)
                  env == QuitTimes(Env, d.quits)
              IN  /\ cout' = d.out
                  /\ pending' = Leftover(d.exc)
                  /\ m_shouldQuit' = env.m_shouldQuit
                  /\ interrupted' = env.interrupted
                  /\ quits' = quits \o QuitsFrom("format", d.quits)
                  /\ handled' = "ok"
                  /\ pc' = "drain"
         [] outcome = "error" ->
              /\ value = ErrorObject
              /\ pending' = [ set |-> TRUE, report |-> TRUE, value |-> value ]
              /\ pc' = "failed"
              /\ cout' = <<>>
              /\ UNCHANGED << m_shouldQuit, interrupted, quits, handled >>
         [] outcome = "throw" ->
              /\ pending' = [ set |-> TRUE, report |-> FALSE, value |-> value ]
              /\ pc' = "failed"
              /\ cout' = <<>>
              /\ UNCHANGED << m_shouldQuit, interrupted, quits, handled >>
         [] outcome = "uncatchable" ->
              /\ value = NoValue
              /\ pending' = NoException
              /\ pc' = "failed"
              /\ cout' = <<>>
              /\ UNCHANGED << m_shouldQuit, interrupted, quits, handled >>
         [] outcome = "quit" ->
              /\ value = NoValue
              /\ pending' = NoException
              /\ m_shouldQuit' = QuitTimes(Env, 1).m_shouldQuit
              /\ interrupted' = QuitTimes(Env, 1).interrupted
              /\ quits' = Append(quits, "script")
              /\ pc' = "failed"
              /\ cout' = <<>>
              /\ UNCHANGED handled
  /\ cerr' = <<>>
  /\ UNCHANGED << eof, lineno, startline, buffer, input, pos, prompt, history,
                  exitCode >>

FailCheckAlwaysReports ==
  /\ UNCHANGED << printVars, formatVars, exception, quits >>
  /\ handled' = (IF m_shouldQuit THEN "quit" ELSE handled)
  /\ pc = "failed"
  /\ pc' = "report"
  /\ cout' = <<>>
  /\ cerr' = <<>>
  /\ UNCHANGED << eof, lineno, startline, buffer, m_shouldQuit, input, pos,
                  prompt, history, pending, jobs, interrupted, evalBuf,
                  evalLine, exitCode, lastCall >>

\* if (!EvalAndPrint(...)) { if (!priv(global)->m_shouldQuit) ... }
FailCheck ==
  /\ UNCHANGED << printVars, formatVars, exception, quits >>
  /\ handled' = (IF m_shouldQuit THEN "quit" ELSE handled)
  /\ pc = "failed"
  /\ pc' = (IF ~m_shouldQuit THEN "report" ELSE "drain")
  /\ cout' = <<>>
  /\ cerr' = <<>>
  /\ UNCHANGED << eof, lineno, startline, buffer, m_shouldQuit, input, pos,
                  prompt, history, pending, jobs, interrupted, evalBuf,
                  evalLine, exitCode, lastCall >>

dieExitsZero ==
  /\ cerr' = << "fatal error:" >>
  /\ exitCode' = 0
  /\ pc' = "dead"

\* die(why): std::cerr << "fatal error:" << why << std::endl; exit(1);
die ==
  /\ cerr' = << "fatal error:" >>
  /\ exitCode' = 1
  /\ pc' = "dead"

ErrorFromExceptionValueNull(exc) == FALSE

\* ErrorFromExceptionValue(cx, exception) is non-null: the value is an object
\* and JS_ErrorFromException finds a report on it
ErrorFromExceptionValue(exc) == exc.value.kind = "object" /\ exc.report

ReportWithoutClear ==
  /\ UNCHANGED << printVars, formatVars, handled, quits >>
  /\ pc = "report"
  /\ \E got \in (IF pending.set THEN BOOLEAN ELSE { FALSE }) :
       IF ~got
       THEN /\ die
            /\ UNCHANGED << pending, exception >>
       ELSE /\ exception' = pending
            /\ pending' = pending
            /\ pc' = "print"
            /\ cerr' = <<>>
            /\ UNCHANGED exitCode
  /\ cout' = <<>>
  /\ UNCHANGED << eof, lineno, startline, buffer, m_shouldQuit, input, pos,
                  prompt, history, jobs, interrupted, evalBuf, evalLine,
                  lastCall >>

\* ReportAndClearException(cx), lines 243-247: fetch the pending exception
\* and clear it.  JS_GetPendingException fails when nothing is pending, and
\* can fail while fetching what is.
ReportAndClearException ==
  /\ UNCHANGED << printVars, formatVars, handled, quits >>
  /\ pc = "report"
  /\ \E got \in (IF pending.set THEN BOOLEAN ELSE { FALSE }) :
       IF ~got
       THEN /\ die
            /\ UNCHANGED << pending, exception >>
       ELSE /\ exception' = pending
            /\ pending' = Leftover(JS_ClearPendingException(pending.set))
            /\ pc' = "print"
            /\ cerr' = <<>>
            /\ UNCHANGED exitCode
  /\ cout' = <<>>
  /\ UNCHANGED << eof, lineno, startline, buffer, m_shouldQuit, input, pos,
                  prompt, history, jobs, interrupted, evalBuf, evalLine,
                  lastCall >>

ReportThenContinue ==
  /\ UNCHANGED << printVars, formatVars >>
  /\ pc = "print"
  /\ IF ~ErrorFromExceptionValue(exception)
     THEN LET r == FormatResult(exception.value,
                                JS_ClearPendingException(pending.set))
              env == QuitTimes(Env, r.quits)
          IN  /\ cerr' = << "error: " \o r.str \o "\n" >>
              /\ pending' = Leftover(r.exc)
              /\ m_shouldQuit' = env.m_shouldQuit
              /\ interrupted' = env.interrupted
              /\ quits' = quits \o QuitsFrom("format", r.quits)
     ELSE /\ cerr' = << "PrintError" >>
          /\ UNCHANGED << pending, m_shouldQuit, interrupted, quits >>
  /\ exception' = NoException
  /\ handled' = "reported"
  /\ pc' = "cond"
  /\ cout' = <<>>
  /\ UNCHANGED << eof, lineno, startline, buffer, input, pos, prompt, history,
                  jobs, evalBuf, evalLine, exitCode, lastCall >>

\* ReportAndClearException(cx), lines 249-257: print the structured report,
\* or "error: " and the formatted value when the exception has none
ReportPrint ==
  /\ UNCHANGED << printVars, formatVars >>
  /\ pc = "print"
  /\ IF ~ErrorFromExceptionValue(exception)
     THEN LET r == FormatResult(exception.value,
                                JS_ClearPendingException(pending.set))
              env == QuitTimes(Env, r.quits)
          IN  /\ cerr' = << "error: " \o r.str \o "\n" >>
              /\ pending' = Leftover(r.exc)
              /\ m_shouldQuit' = env.m_shouldQuit
              /\ interrupted' = env.interrupted
              /\ quits' = quits \o QuitsFrom("format", r.quits)
     ELSE /\ cerr' = << "PrintError" >>
          /\ UNCHANGED << pending, m_shouldQuit, interrupted, quits >>
  /\ exception' = NoException
  /\ handled' = "reported"
  /\ pc' = "drain"
  /\ cout' = <<>>
  /\ UNCHANGED << eof, lineno, startline, buffer, input, pos, prompt, history,
                  jobs, evalBuf, evalLine, exitCode, lastCall >>

\* InternalJobQueue::runJobs as js::RunJobs reaches it: nothing when
\* draining was stopped; otherwise the continuations run in order until the
\* queue is empty or one of them stops the draining.  n counts the entries
\* of the quit builtin.
RECURSIVE Drain(_, _, _)
Drain(queue, env, n) ==
  IF queue = <<>> \/ env.interrupted
  THEN [ jobs |-> queue, env |-> env, quits |-> n ]
  ELSE IF Head(queue) = "quit"
  THEN Drain(Tail(queue), quit(env), n + 1)
  ELSE Drain(Tail(queue), env, n)

RunJobsThenPrompt ==
  /\ UNCHANGED << printVars, formatVars, exception, handled >>
  /\ pc = "drain"
  /\ lastCall' = "RunJobs"
  /\ LET d == Drain(jobs, Env, 0)
     IN  /\ jobs' = d.jobs
         /\ m_shouldQuit' = d.env.m_shouldQuit
         /\ interrupted' = d.env.interrupted
         /\ quits' = quits \o QuitsFrom("job", d.quits)
  /\ pc' = "top"
  /\ cout' = <<>>
  /\ cerr' = <<>>
  /\ UNCHANGED << eof, lineno, startline, buffer, input, pos, prompt, history,
                  pending, evalBuf, evalLine, exitCode >>

\* js::RunJobs(cx);
RunJobs ==
  /\ UNCHANGED << printVars, formatVars, exception, handled >>
  /\ pc = "drain"
  /\ lastCall' = "RunJobs"
  /\ LET d == Drain(jobs, Env, 0)
     IN  /\ jobs' = d.jobs
         /\ m_shouldQuit' = d.env.m_shouldQuit
         /\ interrupted' = d.env.interrupted
         /\ quits' = quits \o QuitsFrom("job", d.quits)
  /\ pc' = "cond"
  /\ cout' = <<>>
  /\ cerr' = <<>>
  /\ UNCHANGED << eof, lineno, startline, buffer, input, pos, prompt, history,
                  pending, evalBuf, evalLine, exitCode >>

LoopCondIgnoresQuit ==
  /\ UNCHANGED << printVars, formatVars, loopAux >>
  /\ pc = "cond"
  /\ pc' = (IF ~eof THEN "top" ELSE "exit")
  /\ cout' = <<>>
  /\ cerr' = <<>>
  /\ UNCHANGED << eof, lineno, startline, buffer, m_shouldQuit, input, pos,
                  prompt, history, pending, jobs, interrupted, evalBuf,
                  evalLine, exitCode, lastCall >>

\* } while (!eof && !priv(global)->m_shouldQuit);
LoopCond ==
  /\ UNCHANGED << printVars, formatVars, loopAux >>
  /\ pc = "cond"
  /\ pc' = (IF ~eof /\ ~m_shouldQuit THEN "top" ELSE "exit")
  /\ cout' = <<>>
  /\ cerr' = <<>>
  /\ UNCHANGED << eof, lineno, startline, buffer, m_shouldQuit, input, pos,
                  prompt, history, pending, jobs, interrupted, evalBuf,
                  evalLine, exitCode, lastCall >>

\* RunREPL after the loop: std::cout << '\n'; return true; main returns 0
Exit ==
  /\ UNCHANGED << printVars, formatVars, loopAux >>
  /\ pc = "exit"
  /\ cout' = << "\n" >>
  /\ cerr' = <<>>
  /\ exitCode' = 0
  /\ pc' = "done"
  /\ UNCHANGED << eof, lineno, startline, buffer, m_shouldQuit, input, pos,
                  prompt, history, pending, jobs, interrupted, evalBuf,
                  evalLine, lastCall >>

Next ==
  \/ Top
  \/ ReadLine
  \/ Probe
  \/ EvalAndPrint
  \/ FailCheck
  \/ ReportAndClearException
  \/ ReportPrint
  \/ RunJobs
  \/ LoopCond
  \/ Exit

Spec == Init /\ [][Next]_vars

\* ------------------------------------------------- PrintErrorLine (report)
\* Characters of a source line: a tab, a space, a token character, a newline
Chars == { "\t", " ", "x", "\n" }

Prefixes == { "", "typein:3:1 " }

LoopIdle ==
  /\ eof = FALSE
  /\ lineno = 1
  /\ startline = 1
  /\ buffer = <<>>
  /\ m_shouldQuit = FALSE
  /\ input = <<>>
  /\ pos = 0
  /\ prompt = "none"
  /\ history = <<>>
  /\ pending = NoException
  /\ jobs = <<>>
  /\ interrupted = FALSE
  /\ evalBuf = <<>>
  /\ evalLine = 0
  /\ cout = <<>>
  /\ cerr = <<>>
  /\ exitCode = Running
  /\ lastCall = "none"
  /\ exception = NoException
  /\ handled = "none"
  /\ quits = <<>>

\* PrintErrorLine is entered with a prefix and a report whose token offset
\* lies within its source line
InitPrint ==
  /\ LoopIdle
  /\ FormatIdle
  /\ pc = "PrintErrorLine"
  /\ prefix \in Prefixes
  /\ i = 0
  /\ ndots = 0
  /\ diag = NoDiag
  /\ kind = "Error"
  /\ \E hasLinebuf \in BOOLEAN, linebuf \in SeqsUpTo(Chars, MaxLinebuf) :
       \E tokenOffset \in 0 .. Len(linebuf) :
         /\ (~hasLinebuf => linebuf = <<>>)
         /\ report = [ hasLinebuf |-> hasLinebuf, linebuf |-> linebuf,
                       tokenOffset |-> tokenOffset ]

\* std::string(n, '.'), character by character
Dots(n) == [ k \in 1 .. n |-> "." ]

\* (ndots + 8) & ~7
RoundedUp(n) == ((n + 8) \div 8) * 8

TabAdvanceByOne(n) == n + 1

\* ndots += (ndots + 8) & ~7;
TabAdvance(n) == n + RoundedUp(n)

\* What writing the string s adds to a stream: nothing when s is empty
Put(s) == IF s = "" THEN <<>> ELSE << s >>

ClosingNewlineAlways(linebuf) == << "\n" >>

\* if (n == 0 || linebuf[n - 1] != '\n') std::cerr << '\n';
ClosingNewline(linebuf) ==
  LET n == Len(linebuf)
  IN  IF n = 0 \/ linebuf[n] # "\n" THEN << "\n" >> ELSE <<>>

\* lines 81-96: the source line, closed by a newline, and the prefix again
PrintErrorLineHead ==
  /\ pc = "PrintErrorLine"
  /\ IF ~report.hasLinebuf
     THEN /\ cerr' = <<>>
          /\ pc' = "printed"
     ELSE LET linebuf == report.linebuf
              pre == IF prefix # "" THEN Put(prefix) ELSE <<>>
          IN  /\ cerr' = << ":\n" >> \o pre \o linebuf
                          \o ClosingNewline(linebuf) \o pre
              /\ pc' = "caret"
  /\ i' = 0
  /\ ndots' = 0
  /\ UNCHANGED << eof, lineno, startline, buffer, m_shouldQuit, input, pos,
                  prompt, history, pending, jobs, interrupted, evalBuf,
                  evalLine, cout, exitCode, lastCall, report, prefix,
                  diag, kind, formatVars, loopAux >>

\* one iteration of for (size_t i = 0; i < n; i++)
CaretStep ==
  /\ pc = "caret"
  /\ i < report.tokenOffset
  /\ ndots' = (IF report.linebuf[i + 1] = "\t" THEN TabAdvance(ndots)
               ELSE ndots + 1)
  /\ i' = i + 1
  /\ cerr' = <<>>
  /\ UNCHANGED << pc, eof, lineno, startline, buffer, m_shouldQuit, input, pos,
                  prompt, history, pending, jobs, interrupted, evalBuf,
                  evalLine, cout, exitCode, lastCall, report, prefix,
                  diag, kind, formatVars, loopAux >>

\* std::cerr << std::string(ndots, '.') << '^';
CaretEmit ==
  /\ pc = "caret"
  /\ ~(i < report.tokenOffset)
  /\ cerr' = Dots(ndots) \o << "^" >>
  /\ pc' = "printed"
  /\ UNCHANGED << eof, lineno, startline, buffer, m_shouldQuit, input, pos,
                  prompt, history, pending, jobs, interrupted, evalBuf,
                  evalLine, cout, exitCode, lastCall, printVars, formatVars,
                  loopAux >>

NextPrint ==
  \/ PrintErrorLineHead
  \/ CaretStep
  \/ CaretEmit

SpecPrint == InitPrint /\ [][NextPrint]_vars

\* ------------------------------------------------------ PrintSingleError
\* The longest message of a report
MaxMessage == 3

\* Source lines as the engine keeps them: a newline only at the end
SourceLines == { <<>>, << "x" >>, << "x", "\n" >>, << "\t", "x" >> }

PrintErrorKind == { "Error", "Warning", "StrictWarning", "Note" }

\* PrintSingleError is entered with a report or a note and its kind; a note
\* is passed as Note and has no source line
InitError ==
  /\ LoopIdle
  /\ FormatIdle
  /\ pc = "PrintSingleError"
  /\ prefix = ""
  /\ i = 0
  /\ ndots = 0
  /\ kind \in PrintErrorKind
  /\ diag \in [ filename : { <<>>, << "typein" >> }, lineno : { 0, 3, 12 },
                 column : { 1, 10 },
                 message : SeqsUpTo({ "m", "\n" }, MaxMessage) ]
  /\ \E hasLinebuf \in BOOLEAN, linebuf \in SourceLines :
       \E tokenOffset \in 0 .. Len(linebuf) :
         /\ (~hasLinebuf => linebuf = <<>> /\ tokenOffset = 0)
         /\ (kind = "Note" => ~hasLinebuf)
         /\ report = [ hasLinebuf |-> hasLinebuf, linebuf |-> linebuf,
                       tokenOffset |-> tokenOffset ]

Digit(d) ==
  CASE d = 0 -> "0" [] d = 1 -> "1" [] d = 2 -> "2" [] d = 3 -> "3"
    [] d = 4 -> "4" [] d = 5 -> "5" [] d = 6 -> "6" [] d = 7 -> "7"
    [] d = 8 -> "8" [] d = 9 -> "9"

\* operator<< of an unsigned: its decimal digits
RECURSIVE Decimal(_)
Decimal(n) ==
  IF n < 10 THEN Digit(n) ELSE Decimal(n \div 10) \o Digit(n % 10)

\* switch (kind), lines 122-134
kindPrefix(k) ==
  CASE k = "Warning" -> "warning"
    [] k = "StrictWarning" -> "strict warning"
    [] k = "Note" -> "note"

PrefixStrNoLabel(d, k) ==
  (IF d.filename # <<>> THEN d.filename[1] \o ":" ELSE "")
  \o (IF d.lineno # 0
      THEN Decimal(d.lineno) \o ":" \o Decimal(d.column) \o " "
      ELSE "")

\* lines 115-137: the prefix built in the ostringstream
PrefixStr(d, k) ==
  (IF d.filename # <<>> THEN d.filename[1] \o ":" ELSE "")
  \o (IF d.lineno # 0
      THEN Decimal(d.lineno) \o ":" \o Decimal(d.column) \o " "
      ELSE "")
  \o (IF k # "Error" THEN kindPrefix(k) \o ": " ELSE "")

\* strchr(message, c): the place of the first c in message, 0 for none
strchr(message, c) ==
  IF \E k \in 1 .. Len(message) : message[k] = c
  THEN CHOOSE k \in 1 .. Len(message) :
         /\ message[k] = c
         /\ \A j \in 1 .. k - 1 : message[j] # c
  ELSE 0

\* lines 139-152: the message, each of its lines after the prefix
RECURSIVE MessageLines(_, _)
MessageLines(message, pre) ==
  LET ctmp == strchr(message, "\n")
  IN  IF ctmp # 0
      THEN Put(pre) \o SubSeq(message, 1, ctmp)
             \o MessageLines(SubSeq(message, ctmp + 1, Len(message)), pre)
      ELSE (IF pre # "" THEN Put(pre) ELSE <<>>) \o message

\* PrintSingleError, lines 115-152
PrintSingleErrorHead ==
  /\ pc = "PrintSingleError"
  /\ prefix' = PrefixStr(diag, kind)
  /\ cerr' = MessageLines(diag.message, PrefixStr(diag, kind))
  /\ pc' = (IF kind = "Note" THEN "printed" ELSE "PrintErrorLine")
  /\ UNCHANGED << eof, lineno, startline, buffer, m_shouldQuit, input, pos,
                  prompt, history, pending, jobs, interrupted, evalBuf,
                  evalLine, cout, exitCode, lastCall, report, i, ndots, diag,
                  kind, formatVars, loopAux >>

\* std::endl: a newline, and the stream is flushed
Endl == << "\n", "flush" >>

\* PrintSingleError, lines 155-156
PrintSingleErrorEnd ==
  /\ pc = "printed"
  /\ cerr' = Endl
  /\ pc' = "returned"
  /\ UNCHANGED << eof, lineno, startline, buffer, m_shouldQuit, input, pos,
                  prompt, history, pending, jobs, interrupted, evalBuf,
                  evalLine, cout, exitCode, lastCall, printVars, formatVars,
                  loopAux >>

NextError ==
  \/ PrintSingleErrorHead
  \/ PrintErrorLineHead
  \/ CaretStep
  \/ CaretEmit
  \/ PrintSingleErrorEnd

SpecError == InitError /\ [][NextError]_vars

\* ---------------------------------------------------------- FormatResult
\* FormatResult is entered with a value and no exception pending
InitFormat ==
  /\ LoopIdle
  /\ PrintIdle
  /\ pc = "FormatResult"
  /\ fmtValue \in Values
  /\ fmtResult = ""

\* std::string s = FormatResult(cx, value)
FormatCall ==
  /\ pc = "FormatResult"
  /\ LET r == FormatResult(fmtValue, pending.set)
         env == QuitTimes(Env, r.quits)
     IN  /\ fmtResult' = r.str
         /\ pending' = Leftover(r.exc)
         /\ m_shouldQuit' = env.m_shouldQuit
         /\ interrupted' = env.interrupted
         /\ quits' = quits \o QuitsFrom("format", r.quits)
  /\ pc' = "formatted"
  /\ UNCHANGED << eof, lineno, startline, buffer, input, pos, prompt, history,
                  jobs, evalBuf, evalLine, cout, cerr, exitCode, lastCall,
                  printVars, fmtValue, exception, handled >>

\* EvalAndPrint, lines 291-295, for the value a successful evaluation gave
PrintResult ==
  /\ pc = "FormatResult"
  /\ LET d == Display(fmtValue)
         env == QuitTimes(Env, d.quits)
     IN  /\ cout' = d.out
         /\ pending' = Leftover(d.exc)
         /\ m_shouldQuit' = env.m_shouldQuit
         /\ interrupted' = env.interrupted
         /\ quits' = quits \o QuitsFrom("format", d.quits)
  /\ pc' = "displayed"
  /\ UNCHANGED << eof, lineno, startline, buffer, input, pos, prompt, history,
                  jobs, evalBuf, evalLine, cerr, exitCode, lastCall,
                  printVars, formatVars, exception, handled >>

NextFormat ==
  \/ FormatCall
  \/ PrintResult

SpecFormat == InitFormat /\ [][NextFormat]_vars

\* ------------------------------------------------------------ properties
ReadLineStep == lastCall' = "readline" /\ lastCall # "readline"

RunJobsStep == lastCall' = "RunJobs" /\ lastCall # "RunJobs"

\* C1: when an evaluation has failed and the quit flag is set, the failure
\* handler does not enter ReportAndClearException and writes nothing to the
\* error stream, and while the flag is set no further line is read.
C1_QuitFailureIsSilent ==
  [][ /\ (pc = "failed" /\ m_shouldQuit) => (pc' = "drain" /\ cerr' = <<>>)
      /\ m_shouldQuit => (~ReadLineStep /\ pos' = pos /\ prompt' = prompt) ]_vars

C1_Witness == pc = "failed" /\ m_shouldQuit /\ lastCall = "evaluate"

\* C2: a line is only read at the start of the run, after the drain that
\* follows an evaluation, or after the probe within one statement; and the
\* drain only ever follows an evaluation, never a read or a probe.
C2_DrainBeforePrompt ==
  [][ /\ ReadLineStep => lastCall \in { "none", "RunJobs", "probe" }
      /\ RunJobsStep => lastCall = "evaluate" ]_vars

C2_Witness ==
  lastCall = "readline" /\ evalLine > 0 /\ ~m_shouldQuit /\ prompt = "js> "

\* C3: once the quit flag is set no queued continuation runs: the job queue
\* is never consumed again.
C3_NoJobAfterQuit == [][ m_shouldQuit => jobs' = jobs ]_vars

C3_Witness ==
  /\ m_shouldQuit
  /\ pc = "cond"
  /\ lastCall = "RunJobs"
  /\ Len(jobs) = MaxJobs

\* C4: the buffer handed to the evaluator is one the probe accepts, or the
\* one accumulated when the line source reported end-of-input.
C4_OnlyCompleteOrEof ==
  lastCall = "evaluate" =>
    \/ JS_Utf8BufferIsCompilableUnit(evalBuf)
    \/ eof /\ pos = Len(input)

C4_Witness ==
  /\ lastCall = "evaluate"
  /\ ~eof
  /\ Len(evalBuf) >= 2
  /\ JS_Utf8BufferIsCompilableUnit(evalBuf)

\* C5: at end-of-input an empty buffer is never handed to the evaluator.
C5_EmptyAtEofNotEvaluated ==
  ~(lastCall = "evaluate" /\ eof /\ evalBuf = <<>>)

RECURSIVE Flatten(_)
Flatten(ls) == IF ls = <<>> THEN <<>> ELSE Head(ls) \o Flatten(Tail(ls))

Least(S) == CHOOSE m \in S : \A o \in S : m <= o

\* Where the statement submitted after p lines were delivered began: b lines
\* belong to earlier statements.  Statements end at the first line that makes
\* the probe accept; at end-of-input (e) the statement is what is left over.
RECURSIVE StmtStart(_, _, _)
StmtStart(b, p, e) ==
  LET ends == { j \in (b + 1) .. p :
                  JS_Utf8BufferIsCompilableUnit(Flatten(SubSeq(input, b + 1, j))) }
  IN  IF ends = {} THEN b
      ELSE IF Least(ends) = p /\ ~e THEN b
      ELSE StmtStart(Least(ends), p, e)

\* C6: the buffer handed to the evaluator is the concatenation, in the order
\* read, of exactly the lines read for that statement.
C6_BufferIsConcatenation ==
  lastCall = "evaluate" =>
    evalBuf = Flatten(SubSeq(input, StmtStart(0, pos, eof) + 1, pos))

C6_Witness ==
  /\ lastCall = "evaluate"
  /\ pos - StmtStart(0, pos, eof) >= 2
  /\ evalBuf = Flatten(SubSeq(input, StmtStart(0, pos, eof) + 1, pos))
  /\ evalBuf[1] # evalBuf[Len(evalBuf)]

\* C7: a read shows the continuation prompt exactly when it follows a probe
\* of the same statement, and the primary prompt otherwise.
C7_PromptChoice ==
  [][ ReadLineStep =>
        /\ prompt' \in { "js> ", "... " }
        /\ (prompt' = "... ") <=> (lastCall = "probe") ]_vars

C7_Witness == lastCall = "readline" /\ prompt = "... " /\ pos >= 2

\* The column reached after character c from column col: a tab moves to the
\* next multiple of 8 above col, any other character moves one column.
ColumnAfter(c, col) == IF c = "\t" THEN ((col \div 8) + 1) * 8 ELSE col + 1

RECURSIVE Column(_, _)
Column(linebuf, n) ==
  IF n = 0 THEN 0 ELSE ColumnAfter(linebuf[n], Column(linebuf, n - 1))

\* C8: the number of filler characters before the caret is the column of
\* the token offset, tabs advancing to the next multiple of 8.
C8_CaretColumn ==
  (pc = "printed" /\ report.hasLinebuf) =>
    ndots = Column(report.linebuf, report.tokenOffset)

\* C9: a tab and four spaces before a token offset of 5 give 12 filler
\* characters before the caret.
C9_TabAndFourSpaces ==
  ( /\ pc = "printed"
    /\ report.hasLinebuf
    /\ report.tokenOffset = 5
    /\ SubSeq(report.linebuf, 1, 5) = << "\t", " ", " ", " ", " " >> )
  => (ndots = 12 /\ cerr = [ k \in 1 .. 12 |-> "." ] \o << "^" >>)

C9_Witness ==
  /\ pc = "printed"
  /\ report.hasLinebuf
  /\ report.tokenOffset = 5
  /\ SubSeq(report.linebuf, 1, 5) = << "\t", " ", " ", " ", " " >>
  /\ ndots = 12

Placeholders ==
  { "[invalid string]", "[unknown object]", "[unknown non-object]",
    "[invalid class]" }

\* Every step the formatter can fall back on fails for value v
EveryStepFails(v) ==
  IF v.kind = "string" THEN ~v.enc
  ELSE /\ v.toStr # "ok"
       /\ v.toSrc # "ok"
       /\ (v.kind = "object" => ~v.newStr)
       /\ ~v.enc

\* C10: FormatResult returns with no exception pending, and returns one of
\* the placeholders when every fallback step fails.
C10_NoFaultLeftPending ==
  pc = "formatted" =>
    /\ ~pending.set
    /\ EveryStepFails(fmtValue) => fmtResult \in Placeholders

C10_Witness ==
  /\ pc = "formatted"
  /\ EveryStepFails(fmtValue)
  /\ fmtValue.kind = "object"
  /\ fmtValue.klass
  /\ fmtResult = "[invalid class]"
  /\ ~pending.set

\* C11: ReportAndClearException clears the pending exception right after
\* fetching it, having written nothing yet; the formatting and printing that
\* follow start with nothing pending, write at most one diagnostic, leave
\* nothing pending and return to the loop.
C11_ClearBeforePrinting ==
  [][ /\ (pc = "report" /\ pc' # "dead") =>
           /\ pc' = "print"
           /\ exception' = pending
           /\ ~pending'.set
           /\ cerr' = <<>>
      /\ pc = "print" =>
           /\ ~pending.set
           /\ Len(cerr') <= 1
           /\ ~pending'.set
           /\ pc' = "drain" ]_vars

C11_Witness ==
  /\ pc = "drain"
  /\ handled = "reported"
  /\ cerr = << "error: [unknown object]\n" >>
  /\ ~pending.set

\* C12: the process is dead exactly when its exit code is 1; it dies only in
\* ReportAndClearException entered after a failed evaluation with the quit
\* flag unset, and there it dies whenever nothing is pending to fetch, and
\* goes on to print only what was pending.
C12_OnlyAbortPath ==
  [][ /\ (pc = "dead") <=> (exitCode = 1)
      /\ (pc' = "dead" /\ pc # "dead") =>
           /\ pc = "report"
           /\ ~m_shouldQuit
           /\ lastCall = "evaluate"
           /\ exitCode' = 1
      /\ pc = "report" => (~m_shouldQuit /\ lastCall = "evaluate")
      /\ (pc = "report" /\ ~pending.set) => pc' = "dead"
      /\ (pc = "report" /\ pc' = "print") => pending.set
      /\ pc = "dead" => pc' = "dead" ]_vars

C12_Witness ==
  /\ pc = "dead"
  /\ exitCode = 1
  /\ ~m_shouldQuit
  /\ ~pending.set
  /\ cerr = << "fatal error:" >>

\* What ReportAndClearException writes for a fetched exception
Reported(exc) ==
  IF exc.value.kind = "object" /\ exc.report
  THEN << "PrintError" >>
  ELSE << "error: " \o FormatResult(exc.value, FALSE).str \o "\n" >>

\* A failed evaluation with the quit flag unset goes to the reporter, which
\* writes the one diagnostic for what it fetched; nothing else is written
\* to the error stream in that iteration.
ReportedOnce ==
  /\ (pc = "failed" /\ ~m_shouldQuit) => (pc' = "report" /\ cerr' = <<>>)
  /\ pc = "print" =>
       /\ cerr' = Reported(exception)
       /\ handled' = "reported"
       /\ pc' = "drain"
  /\ (handled = "reported" /\ pc \in { "drain", "cond" }) => cerr' = <<>>

\* C13 as stated: the failure is reported once and the loop goes on to the
\* next prompt unless end-of-input was reached.
C13_ContinuesUnlessEof ==
  [][ /\ ReportedOnce
      /\ (pc = "cond" /\ handled = "reported" /\ ~eof) => pc' = "top" ]_vars

\* C13: the failure is reported once and the loop goes on to the next prompt
\* unless end-of-input was reached or the quit flag was set meanwhile, by a
\* conversion of the thrown value or by a continuation run in the drain.
C13_ContinuesUnlessEofOrQuit ==
  [][ /\ ReportedOnce
      /\ (pc = "cond" /\ handled = "reported" /\ ~eof /\ ~m_shouldQuit) =>
           pc' = "top"
      /\ (pc = "cond" /\ handled = "reported" /\ m_shouldQuit) =>
           (pc' = "exit" /\ quits # <<>>) ]_vars

C13_Witness ==
  /\ pc = "top"
  /\ handled = "reported"
  /\ lastCall = "RunJobs"
  /\ ~eof
  /\ ~m_shouldQuit

\* C14: a step in which the quit builtin was entered, however often, ends
\* with the quit flag set and no exception pending; the flag once set stays
\* set; and with the flag set nothing is written to the error stream and
\* neither the reporter nor the abort is entered.
C14_QuitSetsFlagSilently ==
  [][ /\ Len(quits') > Len(quits) => (m_shouldQuit' /\ ~pending'.set)
      /\ m_shouldQuit => m_shouldQuit'
      /\ m_shouldQuit =>
           (cerr' = <<>> /\ pc' \notin { "report", "print", "dead" }) ]_vars

C14_Witness ==
  /\ quits = << "format", "format" >>
  /\ m_shouldQuit
  /\ ~pending.set
  /\ handled = "ok"
  /\ pc = "done"
  /\ exitCode = 0

\* How many steps a position of the program is from its end, at most
Rank(p) ==
  CASE p = "top" -> 11
    [] p = "probe" -> 10
    [] p = "readline" -> 9
    [] p = "eval" -> 8
    [] p = "failed" -> 7
    [] p = "report" -> 6
    [] p = "print" -> 5
    [] p = "drain" -> 4
    [] p = "cond" -> 3
    [] p = "exit" -> 2
    [] p = "done" -> 1
    [] p = "dead" -> 0

\* The loop is left only through its condition, and only at end-of-input or
\* with the quit flag set; both stay as they are; from then on no line is
\* read and every step brings the program nearer to its end, which it has
\* not reached while a step is still to be taken; the program ends having
\* written the trailing newline.
Terminal ==
  /\ pc' = "exit" => (pc = "cond" /\ (eof \/ m_shouldQuit))
  /\ eof => eof'
  /\ m_shouldQuit => m_shouldQuit'
  /\ (eof \/ m_shouldQuit) =>
       /\ ~ReadLineStep
       /\ pc' # "readline"
       /\ pos' = pos
       /\ prompt' = prompt
       /\ Rank(pc') < Rank(pc)
  /\ pc' = "done" => (pc = "exit" /\ cout' = << "\n" >>)

\* C15 as stated: after end-of-input or with the quit flag set the process
\* exits with code 0, here for a last statement that is not empty.
C15_AlwaysExitsZero ==
  [][ /\ Terminal
      /\ ((eof \/ m_shouldQuit) /\ buffer # <<>>) =>
           (pc' # "dead" /\ exitCode' \in { Running, 0 }) ]_vars

\* C15: end-of-input and the quit flag are terminal; with the quit flag set
\* the process exits with code 0, and after end-of-input it exits with code
\* 0 unless the evaluation of the last buffer fails with nothing to fetch,
\* which aborts it.
C15_TerminalExits ==
  [][ /\ Terminal
      /\ (pc \notin { "done", "dead" }) => ENABLED Next
      /\ m_shouldQuit => (pc' # "dead" /\ exitCode' \in { Running, 0 })
      /\ pc' = "done" => exitCode' = 0
      /\ (pc' = "dead" /\ eof) => (pc = "report" /\ ~m_shouldQuit) ]_vars

C15_Witness ==
  /\ pc = "done"
  /\ exitCode = 0
  /\ cout = << "\n" >>
  /\ eof
  /\ ~m_shouldQuit
  /\ evalBuf = << "(" >>
  /\ handled = "reported"

\* C16: a string result whose transcoding succeeds is printed between double
\* quotes, an undefined result prints nothing, and any result prints at most
\* one display string and the newline after it.
C16_StringPrintsQuoted ==
  pc = "displayed" =>
    /\ (fmtValue.kind = "string" /\ fmtValue.enc) =>
         cout = << "\"" \o fmtValue.text \o "\"", "\n" >>
    /\ fmtValue.kind = "undefined" => cout = <<>>
    /\ Len(cout) <= 2

\* The prefix the claim describes, part by part
C17_Name == IF diag.filename # <<>> THEN diag.filename[1] \o ":" ELSE ""

C17_Position ==
  CASE diag.lineno = 0 -> ""
    [] diag.lineno = 3 /\ diag.column = 1 -> "3:1 "
    [] diag.lineno = 3 /\ diag.column = 10 -> "3:10 "
    [] diag.lineno = 12 /\ diag.column = 1 -> "12:1 "
    [] diag.lineno = 12 /\ diag.column = 10 -> "12:10 "

C17_Label ==
  CASE kind = "Error" -> ""
    [] kind = "Warning" -> "warning: "
    [] kind = "StrictWarning" -> "strict warning: "
    [] kind = "Note" -> "note: "

\* The step of PrintSingleError that writes the message has just been taken
C17_MessageWritten ==
  \/ pc = "PrintErrorLine"
  \/ pc = "printed" /\ kind = "Note"

\* C17: the prefix is the file name and ':' if there is one, the line, ':',
\* the column and ' ' if the line is known, and the label of a warning, a
\* strict warning or a note; what is written is the message with that prefix
\* at its start and after each of its newlines, and nowhere else.
C17_PrefixBeforeEveryLine ==
  C17_MessageWritten =>
    /\ prefix = C17_Name \o C17_Position \o C17_Label
    /\ IF prefix = ""
       THEN cerr = diag.message
       ELSE /\ cerr # <<>>
            /\ \A k \in 1 .. Len(cerr) :
                 (cerr[k] = prefix) <=> (k = 1 \/ cerr[k - 1] = "\n")
            /\ SelectSeq(cerr, LAMBDA c : c # prefix) = diag.message

C17_Witness ==
  /\ pc = "PrintErrorLine"
  /\ kind = "StrictWarning"
  /\ prefix = "typein:12:10 strict warning: "
  /\ diag.message = << "m", "\n", "m" >>
  /\ cerr = << prefix, "m", "\n", prefix, "m" >>

\* The source line closed by exactly one newline
C18_Closed(linebuf) ==
  IF linebuf # <<>> /\ linebuf[Len(linebuf)] = "\n"
  THEN linebuf
  ELSE Append(linebuf, "\n")

\* What follows the message when the source line is rendered, after opening
C18_SourceLine(opening) ==
  opening \o Put(prefix) \o C18_Closed(report.linebuf) \o Put(prefix)

\* Rendering of the source line, but for how it opens: none for a note and
\* none without a source line; otherwise the caret line follows it, a run of
\* dots and one caret; and the diagnostic ends with a flushed line break.
C18_Rendering ==
  /\ pc = "PrintSingleError" =>
       pc' = (IF kind = "Note" THEN "printed" ELSE "PrintErrorLine")
  /\ (pc = "PrintErrorLine" /\ ~report.hasLinebuf) =>
       (cerr' = <<>> /\ pc' = "printed")
  /\ (pc = "PrintErrorLine" /\ report.hasLinebuf) => pc' = "caret"
  /\ pc = "caret" => (cerr' = <<>> <=> pc' = "caret")
  /\ (pc = "caret" /\ pc' = "printed") =>
       /\ cerr'[Len(cerr')] = "^"
       /\ \A k \in 1 .. Len(cerr') - 1 : cerr'[k] = "."
  /\ pc = "printed" => (cerr' = Endl /\ pc' = "returned")

\* C18 as stated: the source line opens with a newline.
C18_OpensWithNewline ==
  [][ /\ C18_Rendering
      /\ (pc = "PrintErrorLine" /\ report.hasLinebuf) =>
           cerr' = C18_SourceLine(<< "\n" >>) ]_vars

\* C18: the source line is rendered only for an error or a warning that has
\* one; it opens with a colon and a newline, then come the prefix, the
\* source line closed by exactly one newline, the prefix and the caret
\* line; and every diagnostic ends with a flushed line break.
C18_OpensWithColonNewline ==
  [][ /\ C18_Rendering
      /\ (pc = "PrintErrorLine" /\ report.hasLinebuf) =>
           cerr' = C18_SourceLine(<< ":\n" >>) ]_vars

C18_Witness ==
  /\ pc = "returned"
  /\ kind = "Warning"
  /\ report.hasLinebuf
  /\ report.linebuf = << "x" >>
  /\ report.tokenOffset = 1
  /\ prefix = "typein:3:1 warning: "
  /\ cerr = Endl

\* C19: the line counter is one more than the number of lines delivered, so
\* it starts at 1 and end-of-input does not advance it; and the line number
\* handed to the evaluator is one more than the number of lines read for
\* the statements before the one evaluated.
C19_LineCounter ==
  /\ lineno = pos + 1
  /\ startline <= lineno
  /\ lastCall = "evaluate" => evalLine = 1 + StmtStart(0, pos, eof)

C19_Witness ==
  /\ lastCall = "evaluate"
  /\ pos = 2
  /\ lineno = 3
  /\ evalLine = 2
  /\ StmtStart(0, pos, eof) = 1
  /\ ~eof

\* The quit builtin was entered from a continuation run in the drain
QuitByJob == \E k \in 1 .. Len(quits) : quits[k] = "job"

\* C20: a drain that reaches a continuation calling quit runs it, and with
\* that the quit flag is set and the draining stopped: the continuations
\* behind it stay queued, nothing is written to the error stream, and the
\* loop goes through its condition to the exit without another read.
C20_QuitInDrain ==
  [][ /\ (pc = "drain" /\ ~interrupted /\ \E k \in 1 .. Len(jobs) : jobs[k] = "quit")
           => quits' = Append(quits, "job")
      /\ (pc = "drain" /\ quits' # quits) =>
           /\ quits' = Append(quits, "job")
           /\ m_shouldQuit'
           /\ interrupted'
           /\ \E k \in 1 .. Len(jobs) :
                /\ jobs[k] = "quit"
                /\ \A j \in 1 .. k - 1 : jobs[j] # "quit"
                /\ jobs' = SubSeq(jobs, k + 1, Len(jobs))
           /\ cerr' = <<>>
           /\ pending' = pending
           /\ pc' = "cond"
      /\ QuitByJob =>
           /\ pc \in { "cond", "exit", "done" }
           /\ pc = "cond" => pc' = "exit"
           /\ ~ReadLineStep
           /\ prompt' = prompt
           /\ cerr' = <<>> ]_vars

C20_Witness ==
  /\ QuitByJob
  /\ pc = "exit"
  /\ handled = "reported"
  /\ jobs = << "run" >>
  /\ ~eof
  /\ m_shouldQuit
====
